---- MODULE Spec2Model ----
(***************************************************************************)
(* Reservation system (reservations1: bookings against a capacity,         *)
(* reservations2: VIP preemption on single bookings,                       *)
(* reservations3: compound bookings behind a global gate).                 *)
(* A booking is identified by <<user, index in the user's to_book list>>.  *)
(* A thread is identified the same way: <<u, 0>> is user u's run_user      *)
(* thread, <<u, i>> the thread spawned for the check of leg i.             *)
(***************************************************************************)
EXTENDS Integers, Sequences, FiniteSets, TLC

\* ------------------------------------------------------------ bounds
MaxTick == 1
MaxCap == 1
\* the latest end of an interval in the scenario that runs over all intervals
MaxEnd == 3
\* the largest id a caller hands to start_users, and the most users it asks for
MaxId == 3
MaxUsers == 2

\* ------------------------------------------------------------ constants
UNCONFIRMED == 1
CONFIRMED == 2
CANCELLED == 4

None == <<0, 0>>

\* What a caller of start_users sets up: the users, the facilities it creates, the
\* intervals its skeletons use and how many skeletons a user gets. Two users on one
\* facility with every interval over two ticks; two users on two facilities with the
\* one interval that spans both ticks; three users with one such booking each.
Worlds ==
    {[users |-> {1, 2}, facilities |-> {"Room"},
      intervals |-> {<<0, 1>>, <<1, 2>>, <<0, 2>>}, legs |-> {0, 1, 2}],
     [users |-> {1, 2}, facilities |-> {"Room", "Projector"},
      intervals |-> {<<0, 2>>}, legs |-> {0, 1, 2}],
     [users |-> {1, 2, 3}, facilities |-> {"Room"},
      intervals |-> {<<0, 2>>}, legs |-> {1}]}

BookingSkeleton(w) ==
    {[start |-> t[1], end |-> t[2], facility |-> f] : t \in w.intervals, f \in w.facilities}
Compounds(w) == UNION {[1..n -> BookingSkeleton(w)] : n \in w.legs}

VARIABLES
    version,             \* which program runs: 1, 2 or 3 (reservations1, 2, 3)
    vip,                 \* User.vip
    capacity,            \* Facility.capacity
    to_book,             \* per user: the list of bookings handed to run_user
    status,              \* Booking.status
    bookings,            \* Facility.bookings
    tick,                \* ProgramTime.time
    facLock,             \* writer of each facility's RwLock (None: free)
    bkLock,              \* writer of each booking's RwLock (None: free)
    gate,                \* holder of the compound_in_process RwLock (0: free)
    compound_in_process, \* the flag inside that lock
    poisoned,            \* the compound_in_process lock is poisoned
    pc,                  \* position of each run_user thread
    chk,                 \* position of each check_facility thread
    result,              \* what each check_facility call returned
    possible,            \* run_user local
    cancel_list,         \* run_user local
    idx,                 \* run_user loop indices: h (join), i (confirm), j (cancel_list), k (cascade)
    cnt,                 \* book_facility locals: overlaps, premium_overlaps
    inbox,               \* messages sent on User.adress and not yet received
    log,                 \* history: every cancellation with its send on the owner's channel,
                         \* in order, with the user whose thread made it
    order,               \* history: the users in the order in which they took the gate
    args,                \* start_users' arguments: user_ids, user_stati, bookings
    id                   \* User.id of the user created at each position

vars == <<version, vip, capacity, to_book, status, bookings, tick, facLock, bkLock, gate,
          compound_in_process, poisoned, pc, chk, result, possible, cancel_list, idx,
          cnt, inbox, log, order, args, id>>

\* ------------------------------------------------------------ helpers
Users == DOMAIN vip
Facilities == DOMAIN capacity
Ids == UNION {{<<u, i>> : i \in 1..Len(to_book[u])} : u \in Users}
Bk(b) == to_book[b[1]][b[2]]
Owner(b) == b[1]
Self(u) == <<u, 0>>
\* mutant: the back-reference holds the booking alone
Compound_self(b) == <<b>>

Compound(b) == [i \in 1..Len(to_book[b[1]]) |-> <<b[1], i>>]

\* mutant: two bookings with the same start do not overlap
overlap_same_start(b1, b2) ==
    IF b1.start < b2.start THEN b1.end > b2.start
    ELSE b2.start < b1.start /\ b2.end > b1.start

\* mutant: >= where the code has >, so that adjacent bookings overlap
overlap_closed(b1, b2) ==
    IF b1.start < b2.start THEN b1.end >= b2.start ELSE b2.end >= b1.start

overlap(b1, b2) ==
    IF b1.start < b2.start THEN b1.end > b2.start ELSE b2.end > b1.start

\* mutant: the counting loop does not look at the status
CountHit_any(e, b) == overlap(Bk(e), Bk(b))

\* the test of the counting loop on entry e for the booking b being checked
CountHit(e, b) == overlap(Bk(e), Bk(b)) /\ status[e] = CONFIRMED

\* mutant: the preemption loop stops at an entry that is not confirmed yet
PreemptHit_unconfirmed(e, b) == overlap(Bk(e), Bk(b)) /\ ~vip[Owner(e)] /\ status[e] # CANCELLED

\* mutant: the preemption loop does not look at the owner's vip flag
PreemptHit_any(e, b) == overlap(Bk(e), Bk(b)) /\ status[e] = CONFIRMED

\* the test of the preemption loop on entry e
PreemptHit(e, b) == overlap(Bk(e), Bk(b)) /\ ~vip[Owner(e)] /\ status[e] = CONFIRMED

\* mutant: > where the code has >=
Trigger_strict(b, overlaps, premium_overlaps) ==
    /\ vip[Owner(b)]
    /\ overlaps > capacity[Bk(b).facility]
    /\ premium_overlaps < capacity[Bk(b).facility]

\* mutant: the requester's vip flag is not looked at
Trigger_any(b, overlaps, premium_overlaps) ==
    /\ overlaps >= capacity[Bk(b).facility]
    /\ premium_overlaps < capacity[Bk(b).facility]

\* the condition that guards the preemption loop
Trigger(b, overlaps, premium_overlaps) ==
    /\ vip[Owner(b)]
    /\ overlaps >= capacity[Bk(b).facility]
    /\ premium_overlaps < capacity[Bk(b).facility]

\* mutant: the first disjunct is missing
Declined_vip_only(b, overlaps, premium_overlaps) ==
    vip[Owner(b)] /\ premium_overlaps >= capacity[Bk(b).facility]

\* mutant: > where the code has >=
Declined_strict(b, overlaps, premium_overlaps) ==
    \/ (overlaps > capacity[Bk(b).facility] /\ ~vip[Owner(b)])
    \/ (vip[Owner(b)] /\ premium_overlaps > capacity[Bk(b).facility])

\* the condition under which the booking is declined
Declined(b, overlaps, premium_overlaps) ==
    \/ (overlaps >= capacity[Bk(b).facility] /\ ~vip[Owner(b)])
    \/ (vip[Owner(b)] /\ premium_overlaps >= capacity[Bk(b).facility])

\* indices of the entries of b's facility that the counting loop counts
Overlapping(b) ==
    {i \in 1..Len(bookings[Bk(b).facility]) : CountHit(bookings[Bk(b).facility][i], b)}

PremiumOverlapping(b) ==
    {i \in Overlapping(b) : vip[Owner(bookings[Bk(b).facility][i])]}

\* indices of the entries the preemption loop would stop at
Eligible(b) ==
    {i \in 1..Len(bookings[Bk(b).facility]) : PreemptHit(bookings[Bk(b).facility][i], b)}

\* mutant: the last entry, not the first
Min_last(S) == CHOOSE x \in S : \A y \in S : x >= y

Min(S) == CHOOSE x \in S : \A y \in S : x <= y

NoResult == [done |-> FALSE, success |-> FALSE, to_cancel |-> None, overlaps |-> 0,
             premium_overlaps |-> 0, past |-> FALSE]

\* mutant: <= where the time check has <
check_facility_le(b, t) ==
    LET overlaps == Cardinality(Overlapping(b))
        premium_overlaps == Cardinality(PremiumOverlapping(b))
        to_cancel == IF Trigger(b, overlaps, premium_overlaps) /\ Eligible(b) # {}
                     THEN bookings[Bk(b).facility][Min(Eligible(b))] ELSE None
    IN  IF Bk(b).start <= t
        THEN [NoResult EXCEPT !.done = TRUE, !.past = TRUE]
        ELSE [done |-> TRUE, success |-> ~Declined(b, overlaps, premium_overlaps),
              to_cancel |-> to_cancel, overlaps |-> overlaps,
              premium_overlaps |-> premium_overlaps, past |-> FALSE]

\* check_facility(b) run at tick t: what it returns (success, to_cancel) and the
\* counters it had
check_facility(b, t) ==
    LET overlaps == Cardinality(Overlapping(b))
        premium_overlaps == Cardinality(PremiumOverlapping(b))
        to_cancel == IF Trigger(b, overlaps, premium_overlaps) /\ Eligible(b) # {}
                     THEN bookings[Bk(b).facility][Min(Eligible(b))] ELSE None
    IN  IF Bk(b).start < t
        THEN [NoResult EXCEPT !.done = TRUE, !.past = TRUE]
        ELSE [done |-> TRUE, success |-> ~Declined(b, overlaps, premium_overlaps),
              to_cancel |-> to_cancel, overlaps |-> overlaps,
              premium_overlaps |-> premium_overlaps, past |-> FALSE]

\* check_facility(b) run at tick t against a facility whose list is l, the bookings'
\* statuses being st: what it returns (success, to_cancel)
check_on(l, st, b, t) ==
    LET counted == {i \in 1..Len(l) : overlap(Bk(l[i]), Bk(b)) /\ st[l[i]] = CONFIRMED}
        overlaps == Cardinality(counted)
        premium_overlaps == Cardinality({i \in counted : vip[Owner(l[i])]})
        eligible == {i \in 1..Len(l) :
                        overlap(Bk(l[i]), Bk(b)) /\ ~vip[Owner(l[i])] /\ st[l[i]] = CONFIRMED}
        to_cancel == IF Trigger(b, overlaps, premium_overlaps) /\ eligible # {}
                     THEN l[Min(eligible)] ELSE None
    IN  IF Bk(b).start < t
        THEN [success |-> FALSE, to_cancel |-> None]
        ELSE [success |-> ~Declined(b, overlaps, premium_overlaps), to_cancel |-> to_cancel]

\* ------------------------------------------------------------ initial states
\* nothing is booked, locked, running or sent yet
InitRun ==
    /\ status = [b \in Ids |-> UNCONFIRMED]
    /\ bookings = [f \in Facilities |-> <<>>]
    /\ tick = 0
    /\ facLock = [f \in Facilities |-> None]
    /\ bkLock = [b \in Ids |-> None]
    /\ gate = 0
    /\ compound_in_process = FALSE
    /\ poisoned = FALSE
    /\ chk = [b \in Ids |-> "none"]
    /\ result = [b \in Ids |-> NoResult]
    /\ possible = [u \in Users |-> TRUE]
    /\ cancel_list = [u \in Users |-> <<>>]
    /\ idx = [u \in Users |-> [h |-> 1, i |-> 1, j |-> 1, k |-> 0]]
    /\ cnt = [u \in Users |-> [overlaps |-> 0, premium_overlaps |-> 0]]
    /\ inbox = [u \in Users |-> <<>>]
    /\ log = <<>>
    /\ order = <<>>

\* the state after start_users built the users, called with the ids 1, 2, ...
InitState ==
    /\ InitRun
    /\ args = [user_ids |-> [u \in Users |-> u], user_stati |-> vip, bookings |-> to_book]
    /\ id = [u \in Users |-> u]

InitCommon ==
    /\ \E w \in Worlds :
          /\ vip \in {v \in [w.users -> BOOLEAN] :
                        \A u1, u2 \in w.users : u1 < u2 /\ v[u1] => v[u2]}
          /\ capacity \in [w.facilities -> 0..MaxCap]
          /\ to_book \in [w.users -> Compounds(w)]
    /\ InitState

\* reservations3: every run_user thread is about to take the gate
Init ==
    /\ version = 3
    /\ InitCommon
    /\ pc = [u \in Users |-> "start"]

\* ------------------------------------------------------------ the clock
\* start_program_time: the background thread adds one to the time. The time is read
\* only by check_facility and book_facility, right after they lock the facility, so a
\* tick at any other moment is taken when the next such read is due: no thread can
\* tell the difference.
Tick ==
    /\ tick < MaxTick
    /\ \/ \E b \in Ids : chk[b] = "lockedFacility"
       \/ \E u \in Users : pc[u] \in {"lockedFacility", "locked"}
    /\ tick' = tick + 1
    /\ UNCHANGED <<cnt, args, id, version, vip, capacity, to_book, status, bookings, facLock, bkLock, gate,
                   compound_in_process, poisoned, pc, chk, result, possible, cancel_list,
                   idx, inbox, log,
                   order>>

\* ------------------------------------------------------------ reservations3: run_user
N(u) == Len(to_book[u])

\* mutant: the result of the checks is not looked at
AfterJoin_always(u, poss) == IF N(u) > 0 THEN "confirm" ELSE "cancel"

\* where run_user goes once every handle is joined
AfterJoin(u, poss) ==
    IF ~poss THEN "abort" ELSE IF N(u) > 0 THEN "confirm" ELSE "cancel"

\* mutant: the gate is taken without waiting for it
AcquireGate_unguarded(u) ==
    /\ version = 3
    /\ pc[u] = "start"
    /\ IF poisoned
       THEN /\ pc' = [pc EXCEPT ![u] = "panicked"]
            /\ UNCHANGED <<gate, compound_in_process, chk, order>>
       ELSE /\ gate' = u
            /\ order' = Append(order, u)
            /\ compound_in_process' = TRUE
            /\ chk' = [b \in Ids |-> IF Owner(b) = u THEN "spawned" ELSE chk[b]]
            /\ pc' = [pc EXCEPT ![u] = IF N(u) > 0 THEN "join" ELSE AfterJoin(u, TRUE)]
    /\ UNCHANGED <<cnt, args, id, version, vip, capacity, to_book, status, bookings, tick, facLock, bkLock,
                   poisoned, result, possible, cancel_list, idx, inbox, log>>

\* compound_in_process.write().unwrap(); *compound_in_process = true; spawn the checks
AcquireGate(u) ==
    /\ version = 3
    /\ pc[u] = "start"
    /\ gate = 0
    /\ IF poisoned
       THEN /\ pc' = [pc EXCEPT ![u] = "panicked"]
            /\ UNCHANGED <<gate, compound_in_process, chk, order>>
       ELSE /\ gate' = u
            /\ order' = Append(order, u)
            /\ compound_in_process' = TRUE
            /\ chk' = [b \in Ids |-> IF Owner(b) = u THEN "spawned" ELSE chk[b]]
            /\ pc' = [pc EXCEPT ![u] = IF N(u) > 0 THEN "join" ELSE AfterJoin(u, TRUE)]
    /\ UNCHANGED <<cnt, args, id, version, vip, capacity, to_book, status, bookings, tick, facLock, bkLock,
                   poisoned, result, possible, cancel_list, idx, inbox, log>>

\* check_facility: booking.write()
LockBooking(b) ==
    /\ chk[b] = "spawned"
    /\ bkLock[b] = None
    /\ bkLock' = [bkLock EXCEPT ![b] = b]
    /\ chk' = [chk EXCEPT ![b] = "lockedBooking"]
    /\ UNCHANGED <<cnt, args, id, version, vip, capacity, to_book, status, bookings, tick, facLock, gate,
                   compound_in_process, poisoned, pc, result, possible, cancel_list, idx,
                   inbox, log,
                   order>>

\* mutant: the facility's lock is taken without waiting for it
LockFacility_unguarded(b) ==
    /\ chk[b] = "lockedBooking"
    /\ facLock' = [facLock EXCEPT ![Bk(b).facility] = b]
    /\ chk' = [chk EXCEPT ![b] = "lockedFacility"]
    /\ UNCHANGED <<cnt, args, id, version, vip, capacity, to_book, status, bookings, tick, bkLock, gate,
                   compound_in_process, poisoned, pc, result, possible, cancel_list, idx,
                   inbox, log,
                   order>>

\* check_facility: booking_read.facility.write()
LockFacility(b) ==
    /\ chk[b] = "lockedBooking"
    /\ facLock[Bk(b).facility] = None
    /\ facLock' = [facLock EXCEPT ![Bk(b).facility] = b]
    /\ chk' = [chk EXCEPT ![b] = "lockedFacility"]
    /\ UNCHANGED <<cnt, args, id, version, vip, capacity, to_book, status, bookings, tick, bkLock, gate,
                   compound_in_process, poisoned, pc, result, possible, cancel_list, idx,
                   inbox, log,
                   order>>

\* mutant: the booking is put at the head of the list
CheckBody_front(b) ==
    /\ chk[b] = "lockedFacility"
    /\ \A i \in 1..Len(bookings[Bk(b).facility]) : bkLock[bookings[Bk(b).facility][i]] = None
    /\ LET r == check_facility(b, tick)
       IN  /\ result' = [result EXCEPT ![b] = r]
           /\ bookings' = IF r.success
                          THEN [bookings EXCEPT ![Bk(b).facility] = <<b>> \o @]
                          ELSE bookings
    /\ facLock' = [facLock EXCEPT ![Bk(b).facility] = None]
    /\ bkLock' = [bkLock EXCEPT ![b] = None]
    /\ chk' = [chk EXCEPT ![b] = "finished"]
    /\ UNCHANGED <<cnt, args, id, version, vip, capacity, to_book, status, tick, gate, compound_in_process,
                   poisoned, pc, possible, cancel_list, idx, inbox, log,
                   order>>

\* check_facility: the body, run with both locks held; every entry of the list is
\* locked in turn (read in the counting loop, write in the preemption loop), so the
\* body needs each of them free
CheckBody(b) ==
    /\ chk[b] = "lockedFacility"
    /\ \A i \in 1..Len(bookings[Bk(b).facility]) : bkLock[bookings[Bk(b).facility][i]] = None
    /\ LET r == check_facility(b, tick)
       IN  /\ result' = [result EXCEPT ![b] = r]
           /\ bookings' = IF r.success
                          THEN [bookings EXCEPT ![Bk(b).facility] = Append(@, b)]
                          ELSE bookings
    /\ facLock' = [facLock EXCEPT ![Bk(b).facility] = None]
    /\ bkLock' = [bkLock EXCEPT ![b] = None]
    /\ chk' = [chk EXCEPT ![b] = "finished"]
    /\ UNCHANGED <<cnt, args, id, version, vip, capacity, to_book, status, tick, gate, compound_in_process,
                   poisoned, pc, possible, cancel_list, idx, inbox, log,
                   order>>

\* mutant: possible is the result of the last leg joined, not the AND of all
Join_last(u) ==
    /\ pc[u] = "join"
    /\ LET b == <<u, idx[u].h>>
           poss == result[b].success
       IN  /\ chk[b] = "finished"
           /\ cancel_list' = [cancel_list EXCEPT ![u] =
                  IF result[b].to_cancel # None THEN Append(@, result[b].to_cancel) ELSE @]
           /\ possible' = [possible EXCEPT ![u] = poss]
           /\ idx' = [idx EXCEPT ![u].h = @ + 1]
           /\ pc' = [pc EXCEPT ![u] = IF idx[u].h = N(u) THEN AfterJoin(u, poss) ELSE "join"]
    /\ UNCHANGED <<cnt, args, id, version, vip, capacity, to_book, status, bookings, tick, facLock, bkLock,
                   gate, compound_in_process, poisoned, chk, result, inbox, log,
                   order>>

\* run_user: handle.join() of the next handle, and what the loop body does with it
Join(u) ==
    /\ pc[u] = "join"
    /\ LET b == <<u, idx[u].h>>
           poss == possible[u] /\ result[b].success
       IN  /\ chk[b] = "finished"
           /\ cancel_list' = [cancel_list EXCEPT ![u] =
                  IF result[b].to_cancel # None THEN Append(@, result[b].to_cancel) ELSE @]
           /\ possible' = [possible EXCEPT ![u] = poss]
           /\ idx' = [idx EXCEPT ![u].h = @ + 1]
           /\ pc' = [pc EXCEPT ![u] = IF idx[u].h = N(u) THEN AfterJoin(u, poss) ELSE "join"]
    /\ UNCHANGED <<cnt, args, id, version, vip, capacity, to_book, status, bookings, tick, facLock, bkLock,
                   gate, compound_in_process, poisoned, chk, result, inbox, log,
                   order>>

\* mutant: the loop leaves after its first round
Confirm_first_only(u) ==
    /\ pc[u] = "confirm"
    /\ LET b == <<u, idx[u].i>>
       IN  /\ bkLock[b] = None
           /\ status' = [status EXCEPT ![b] = CONFIRMED]
    /\ idx' = [idx EXCEPT ![u].i = @ + 1]
    /\ pc' = [pc EXCEPT ![u] = "cancel"]
    /\ UNCHANGED <<cnt, args, id, version, vip, capacity, to_book, bookings, tick, facLock, bkLock, gate,
                   compound_in_process, poisoned, chk, result, possible, cancel_list, inbox,
                   log,
                   order>>

\* run_user: one round of the loop that confirms the compound's bookings
Confirm(u) ==
    /\ pc[u] = "confirm"
    /\ LET b == <<u, idx[u].i>>
       IN  /\ bkLock[b] = None
           /\ status' = [status EXCEPT ![b] = CONFIRMED]
    /\ idx' = [idx EXCEPT ![u].i = @ + 1]
    /\ pc' = [pc EXCEPT ![u] = IF idx[u].i = N(u) THEN "cancel" ELSE "confirm"]
    /\ UNCHANGED <<cnt, args, id, version, vip, capacity, to_book, bookings, tick, facLock, bkLock, gate,
                   compound_in_process, poisoned, chk, result, possible, cancel_list, inbox,
                   log,
                   order>>

\* mutant: the booking is cancelled and its owner notified whatever its status
Cancelled_unguarded(b, u) ==
    [status |-> [status EXCEPT ![b] = CANCELLED],
     inbox |-> [inbox EXCEPT ![Owner(b)] = Append(@, b)],
     log |-> Append(log, [booking |-> b, by |-> u, for |-> Self(u)])]

\* mutant: the status written is UNCONFIRMED
Cancelled_reset(b, u) ==
    IF status[b] # CANCELLED
    THEN [status |-> [status EXCEPT ![b] = UNCONFIRMED],
          inbox |-> [inbox EXCEPT ![Owner(b)] = Append(@, b)],
          log |-> Append(log, [booking |-> b, by |-> u, for |-> Self(u)])]
    ELSE [status |-> status, inbox |-> inbox, log |-> log]

\* status and messages after booking b is cancelled by user u's thread, unless it is
\* cancelled already
Cancelled(b, u) ==
    IF status[b] # CANCELLED
    THEN [status |-> [status EXCEPT ![b] = CANCELLED],
          inbox |-> [inbox EXCEPT ![Owner(b)] = Append(@, b)],
          log |-> Append(log, [booking |-> b, by |-> u, for |-> Self(u)])]
    ELSE [status |-> status, inbox |-> inbox, log |-> log]

\* run_user: the head of one round over cancel_list: lock the entry and cancel it
CancelEntry(u) ==
    /\ pc[u] = "cancel"
    /\ idx[u].j <= Len(cancel_list[u])
    /\ idx[u].k = 0
    /\ LET b == cancel_list[u][idx[u].j]
           c == Cancelled(b, u)
       IN  /\ bkLock[b] = None
           /\ bkLock' = [bkLock EXCEPT ![b] = Self(u)]
           /\ status' = c.status
           /\ inbox' = c.inbox
           /\ log' = c.log
    /\ idx' = [idx EXCEPT ![u].k = 1]
    /\ UNCHANGED <<cnt, args, id, version, vip, capacity, to_book, bookings, tick, facLock, gate,
                   compound_in_process, poisoned, pc, chk, result, possible, cancel_list,
                   order>>

\* mutant: write() where the code has try_write(): the loop waits for the entry's lock
Cascade_blocking(u) ==
    /\ pc[u] = "cancel"
    /\ idx[u].j <= Len(cancel_list[u])
    /\ idx[u].k > 0
    /\ LET b == cancel_list[u][idx[u].j]
           s == Compound(b)[idx[u].k]
           c == Cancelled(s, u)
           last == idx[u].k = Len(Compound(b))
       IN  /\ bkLock[s] = None
           /\ status' = c.status
           /\ inbox' = c.inbox
           /\ log' = c.log
           /\ bkLock' = IF last THEN [bkLock EXCEPT ![b] = None] ELSE bkLock
           /\ idx' = [idx EXCEPT ![u].k = IF last THEN 0 ELSE @ + 1,
                                 ![u].j = IF last THEN @ + 1 ELSE @]
    /\ UNCHANGED <<cnt, args, id, version, vip, capacity, to_book, bookings, tick, facLock, gate,
                   compound_in_process, poisoned, pc, chk, result, possible, cancel_list,
                   order>>

\* run_user: one round of the loop over the compound of the cancelled entry
Cascade(u) ==
    /\ pc[u] = "cancel"
    /\ idx[u].j <= Len(cancel_list[u])
    /\ idx[u].k > 0
    /\ LET b == cancel_list[u][idx[u].j]
           s == Compound(b)[idx[u].k]
           c == IF bkLock[s] = None THEN Cancelled(s, u)
                ELSE [status |-> status, inbox |-> inbox, log |-> log]
           last == idx[u].k = Len(Compound(b))
       IN  /\ status' = c.status
           /\ inbox' = c.inbox
           /\ log' = c.log
           /\ bkLock' = IF last THEN [bkLock EXCEPT ![b] = None] ELSE bkLock
           /\ idx' = [idx EXCEPT ![u].k = IF last THEN 0 ELSE @ + 1,
                                 ![u].j = IF last THEN @ + 1 ELSE @]
    /\ UNCHANGED <<cnt, args, id, version, vip, capacity, to_book, bookings, tick, facLock, gate,
                   compound_in_process, poisoned, pc, chk, result, possible, cancel_list,
                   order>>

\* run_user: the end of the scope, reached on either branch. Both branches print
\* to_book[0], which panics on an empty compound with the gate's guard alive: the
\* lock is released poisoned and the flag stays set.
Release(u) ==
    /\ \/ pc[u] = "abort"
       \/ pc[u] = "cancel" /\ idx[u].j > Len(cancel_list[u])
    /\ gate' = 0
    /\ IF N(u) = 0
       THEN /\ poisoned' = TRUE
            /\ pc' = [pc EXCEPT ![u] = "panicked"]
            /\ UNCHANGED compound_in_process
       ELSE /\ compound_in_process' = FALSE
            /\ pc' = [pc EXCEPT ![u] = "inbox"]
            /\ UNCHANGED poisoned
    /\ UNCHANGED <<cnt, args, id, version, vip, capacity, to_book, status, bookings, tick, facLock, bkLock,
                   chk, result, possible, cancel_list, idx, inbox, log,
                   order>>

\* run_user: one round of `for msg in inbox`: receive, msg.read(), print
Receive(u) ==
    /\ pc[u] = "inbox"
    /\ inbox[u] # <<>>
    /\ bkLock[Head(inbox[u])] = None
    /\ inbox' = [inbox EXCEPT ![u] = Tail(@)]
    /\ UNCHANGED <<cnt, args, id, version, vip, capacity, to_book, status, bookings, tick, facLock, bkLock,
                   gate, compound_in_process, poisoned, pc, chk, result, possible,
                   cancel_list, idx, log,
                   order>>

\* ------------------------------------------------------------ reservations2
\* where run_user of reservations2 goes after the call for its booking number h
AfterBooking(u, h) == IF h >= Len(to_book[u]) THEN "inbox" ELSE "book"

\* reservations2: every run_user thread is at the head of its loop over to_book
Init2 ==
    /\ version = 2
    /\ InitCommon
    /\ pc = [u \in Users |-> AfterBooking(u, 0)]

Current(u) == <<u, idx[u].h>>

\* book_facility: booking.write() on the booking, which is in no list yet, and
\* booking_read.facility.write()
BookLock(u) ==
    /\ version = 2
    /\ pc[u] = "book"
    /\ bkLock[Current(u)] = None
    /\ facLock[Bk(Current(u)).facility] = None
    /\ bkLock' = [bkLock EXCEPT ![Current(u)] = Self(u)]
    /\ facLock' = [facLock EXCEPT ![Bk(Current(u)).facility] = Self(u)]
    /\ pc' = [pc EXCEPT ![u] = "lockedFacility"]
    /\ UNCHANGED <<args, id, version, vip, capacity, to_book, status, bookings, tick, gate,
                   compound_in_process, poisoned, chk, result, possible, cancel_list, idx,
                   cnt, inbox, log,
                   order>>

\* book_facility: where it goes when the counting loop is over with these counters:
\* into the preemption loop or past it
AfterCount(u, c) ==
    IF Trigger(Current(u), c.overlaps, c.premium_overlaps)
       /\ Len(bookings[Bk(Current(u)).facility]) > 0
    THEN "preempt" ELSE "decide"

\* book_facility: the check that the booking is in the future; `return false` drops
\* both guards
BookTimeCheck(u) ==
    /\ pc[u] = "lockedFacility"
    /\ IF Bk(Current(u)).start < tick
       THEN /\ facLock' = [facLock EXCEPT ![Bk(Current(u)).facility] = None]
            /\ bkLock' = [bkLock EXCEPT ![Current(u)] = None]
            /\ idx' = [idx EXCEPT ![u].h = @ + 1]
            /\ pc' = [pc EXCEPT ![u] = AfterBooking(u, idx[u].h)]
            /\ result' = [result EXCEPT ![Current(u)] =
                              [NoResult EXCEPT !.done = TRUE, !.past = TRUE]]
            /\ UNCHANGED cnt
       ELSE /\ cnt' = [cnt EXCEPT ![u] = [overlaps |-> 0, premium_overlaps |-> 0]]
            /\ idx' = [idx EXCEPT ![u].i = 1, ![u].j = 1]
            /\ pc' = [pc EXCEPT ![u] =
                   IF Len(bookings[Bk(Current(u)).facility]) > 0 THEN "count"
                   ELSE AfterCount(u, cnt'[u])]
            /\ UNCHANGED <<facLock, bkLock, result>>
    /\ UNCHANGED <<args, id, version, vip, capacity, to_book, status, bookings, tick, gate,
                   compound_in_process, poisoned, chk, possible, cancel_list, inbox, log,
                   order>>

\* book_facility: one round of the counting loop (b.read() on the entry)
BookCount(u) ==
    /\ pc[u] = "count"
    /\ LET f == Bk(Current(u)).facility
           e == bookings[f][idx[u].i]
           hit == CountHit(e, Current(u))
       IN  /\ bkLock[e] = None
           /\ cnt' = [cnt EXCEPT
                  ![u].overlaps = IF hit THEN @ + 1 ELSE @,
                  ![u].premium_overlaps = IF hit /\ vip[Owner(e)] THEN @ + 1 ELSE @]
           /\ pc' = [pc EXCEPT ![u] =
                  IF idx[u].i = Len(bookings[f]) THEN AfterCount(u, cnt'[u]) ELSE "count"]
    /\ idx' = [idx EXCEPT ![u].i = @ + 1]
    /\ UNCHANGED <<args, id, version, vip, capacity, to_book, status, bookings, tick, facLock, bkLock,
                   gate, compound_in_process, poisoned, chk, result, possible,
                   cancel_list, inbox, log,
                   order>>

\* book_facility: one round of the preemption loop (b.write() on the entry); the
\* first confirmed non-vip overlap is cancelled, its user is sent the booking, and
\* the loop breaks
BookPreempt(u) ==
    /\ pc[u] = "preempt"
    /\ LET f == Bk(Current(u)).facility
           e == bookings[f][idx[u].j]
           hit == PreemptHit(e, Current(u))
       IN  /\ bkLock[e] = None
           /\ status' = IF hit THEN [status EXCEPT ![e] = CANCELLED] ELSE status
           /\ inbox' = IF hit THEN [inbox EXCEPT ![Owner(e)] = Append(@, e)] ELSE inbox
           /\ log' = IF hit THEN Append(log, [booking |-> e, by |-> u, for |-> Current(u)])
                      ELSE log
           /\ result' = IF hit THEN [result EXCEPT ![Current(u)].to_cancel = e] ELSE result
           /\ pc' = [pc EXCEPT ![u] =
                  IF hit \/ idx[u].j = Len(bookings[f]) THEN "decide" ELSE "preempt"]
    /\ idx' = [idx EXCEPT ![u].j = @ + 1]
    /\ UNCHANGED <<args, id, version, vip, capacity, to_book, bookings, tick, facLock, bkLock, gate,
                   compound_in_process, poisoned, chk, possible, cancel_list, cnt,
                   order>>

\* book_facility: decline (`return false`) or push; either way both guards are dropped
\* and the counters and loop variables are gone
BookDecide(u) ==
    /\ pc[u] = "decide"
    /\ facLock' = [facLock EXCEPT ![Bk(Current(u)).facility] = None]
    /\ bkLock' = [bkLock EXCEPT ![Current(u)] = None]
    /\ result' = [result EXCEPT ![Current(u)] =
           [@ EXCEPT !.done = TRUE,
                     !.success = ~Declined(Current(u), cnt[u].overlaps, cnt[u].premium_overlaps),
                     !.overlaps = cnt[u].overlaps,
                     !.premium_overlaps = cnt[u].premium_overlaps]]
    /\ cnt' = [cnt EXCEPT ![u] = [overlaps |-> 0, premium_overlaps |-> 0]]
    /\ IF Declined(Current(u), cnt[u].overlaps, cnt[u].premium_overlaps)
       THEN /\ idx' = [idx EXCEPT ![u].h = @ + 1, ![u].i = 1, ![u].j = 1]
            /\ pc' = [pc EXCEPT ![u] = AfterBooking(u, idx[u].h)]
            /\ UNCHANGED bookings
       ELSE /\ bookings' = [bookings EXCEPT ![Bk(Current(u)).facility] = Append(@, Current(u))]
            /\ idx' = [idx EXCEPT ![u].i = 1, ![u].j = 1]
            /\ pc' = [pc EXCEPT ![u] = "pushed"]
    /\ UNCHANGED <<args, id, version, vip, capacity, to_book, status, tick, gate, compound_in_process,
                   poisoned, chk, possible, cancel_list, inbox, log,
                   order>>

\* book_facility: booking.write() again and the status set to confirmed
BookConfirm(u) ==
    /\ pc[u] = "pushed"
    /\ bkLock[Current(u)] = None
    /\ status' = [status EXCEPT ![Current(u)] = CONFIRMED]
    /\ idx' = [idx EXCEPT ![u].h = @ + 1]
    /\ pc' = [pc EXCEPT ![u] = AfterBooking(u, idx[u].h)]
    /\ UNCHANGED <<args, id, version, vip, capacity, to_book, bookings, tick, facLock, bkLock, gate,
                   compound_in_process, poisoned, chk, result, possible, cancel_list, cnt,
                   inbox, log,
                   order>>

\* ------------------------------------------------------------ reservations1
\* where run_user of reservations1 goes after the call for its booking number h; the
\* thread ends with the loop
AfterBooking1(u, h) == IF h >= Len(to_book[u]) THEN "done" ELSE "book"

\* reservations1: users have no vip flag and every run_user thread is at the head of
\* its loop over to_book
Init1 ==
    /\ version = 1
    /\ InitCommon
    /\ \A u \in Users : ~vip[u]
    /\ pc = [u \in Users |-> AfterBooking1(u, 0)]

\* book_facility of reservations1: the entries of b's facility that overlap b
Overlapping1(b) ==
    {i \in 1..Len(bookings[Bk(b).facility]) :
        overlap(Bk(bookings[Bk(b).facility][i]), Bk(b))}

\* mutant: > where the code has >=
Declined1_strict(b, overlaps) == overlaps > capacity[Bk(b).facility]

\* book_facility of reservations1: the condition under which the booking is declined
Declined1(b, overlaps) == overlaps >= capacity[Bk(b).facility]

\* book_facility of reservations1: booking.facility.write()
Book1Lock(u) ==
    /\ version = 1
    /\ pc[u] = "book"
    /\ facLock[Bk(Current(u)).facility] = None
    /\ facLock' = [facLock EXCEPT ![Bk(Current(u)).facility] = Self(u)]
    /\ pc' = [pc EXCEPT ![u] = "locked"]
    /\ UNCHANGED <<args, id, version, vip, capacity, to_book, status, bookings, tick, bkLock, gate,
                   compound_in_process, poisoned, chk, result, possible, cancel_list, idx,
                   cnt, inbox, log,
                   order>>

\* book_facility of reservations1: the body under the facility's lock: time check,
\* count of the overlaps, decline or push; the guard is dropped on return
Book1Body(u) ==
    /\ pc[u] = "locked"
    /\ LET b == Current(u)
           overlaps == Cardinality(Overlapping1(b))
           past == Bk(b).start < tick
           success == ~past /\ ~Declined1(b, overlaps)
       IN  /\ result' = [result EXCEPT ![b] =
                  [NoResult EXCEPT !.done = TRUE, !.past = past, !.success = success,
                                   !.overlaps = IF past THEN 0 ELSE overlaps]]
           /\ bookings' = IF success
                          THEN [bookings EXCEPT ![Bk(b).facility] = Append(@, b)]
                          ELSE bookings
           /\ facLock' = [facLock EXCEPT ![Bk(b).facility] = None]
    /\ idx' = [idx EXCEPT ![u].h = @ + 1]
    /\ pc' = [pc EXCEPT ![u] = AfterBooking1(u, idx[u].h)]
    /\ UNCHANGED <<args, id, version, vip, capacity, to_book, status, tick, bkLock, gate,
                   compound_in_process, poisoned, chk, possible, cancel_list, cnt, inbox,
                   log,
                   order>>

\* ------------------------------------------------------------ the tests' set-ups
Skeleton(s, e, f) == [start |-> s, end |-> e, facility |-> f]

\* reservations2, test_3users_8bookings_6possible
Init16 ==
    /\ version = 2
    /\ vip = [u \in {1, 2, 3} |-> u = 3]
    /\ capacity = [f \in {"Room", "Projector"} |-> 2]
    /\ to_book = [u \in {1, 2, 3} |->
                     CASE u = 1 -> <<Skeleton(10, 20, "Room"), Skeleton(10, 20, "Room"),
                                     Skeleton(25, 30, "Room")>>
                       [] u = 2 -> <<Skeleton(10, 20, "Projector"),
                                     Skeleton(10, 20, "Projector"),
                                     Skeleton(25, 30, "Projector")>>
                       [] u = 3 -> <<Skeleton(10, 20, "Room"), Skeleton(10, 20, "Projector")>>]
    /\ InitState
    /\ pc = [u \in Users |-> AfterBooking(u, 0)]

\* reservations3, test_3users_8bookings_2compund_1vip_2possible
Init19 ==
    /\ version = 3
    /\ vip = [u \in {1, 2, 3} |-> u = 3]
    /\ capacity = [f \in {"Room", "Projector"} |-> 2]
    /\ to_book = [u \in {1, 2, 3} |->
                     <<Skeleton(10, 20, "Room"), Skeleton(10, 20, "Projector")>>]
    /\ InitState
    /\ pc = [u \in Users |-> "start"]

\* reservations3 with two victims and two preempting compounds: users 1 and 2 (not
\* vip) book the Room and the Projector, users 3 and 4 (vip) book the same
Init21 ==
    /\ version = 3
    /\ vip = [u \in {1, 2, 3, 4} |-> u >= 3]
    /\ capacity = [f \in {"Room", "Projector"} |-> 1]
    /\ to_book = [u \in {1, 2, 3, 4} |->
                     <<Skeleton(1, 2, IF u \in {1, 3} THEN "Room" ELSE "Projector")>>]
    /\ InitState
    /\ pc = [u \in Users |-> "start"]

\* reservations2 or reservations3 with a Room of capacity 2 and a Projector of
\* capacity 1: user 1 (not vip) books both, users 2 and 3 (vip) book the Room, all over
\* the same interval
Init34 ==
    /\ version \in {2, 3}
    /\ vip = [u \in {1, 2, 3} |-> u >= 2]
    /\ capacity = [f \in {"Room", "Projector"} |-> IF f = "Room" THEN 2 ELSE 1]
    /\ to_book = [u \in {1, 2, 3} |->
                     IF u = 1 THEN <<Skeleton(0, 2, "Room"), Skeleton(0, 2, "Projector")>>
                     ELSE <<Skeleton(0, 2, "Room")>>]
    /\ InitState
    /\ pc = [u \in Users |-> IF version = 3 THEN "start" ELSE AfterBooking(u, 0)]

\* reservations3 with two users who book one interval each on one Room, the intervals
\* running over every [s, e) with 0 <= s < e <= MaxEnd
Init32 ==
    /\ version = 3
    /\ vip \in {v \in [{1, 2} -> BOOLEAN] : v[1] => v[2]}
    /\ capacity \in [{"Room"} -> 0..MaxCap]
    /\ to_book \in [{1, 2} -> {<<Skeleton(s, e, "Room")>> :
                                 s \in 0..(MaxEnd - 1), e \in 1..MaxEnd} \ {<<>>}]
    /\ \A u \in {1, 2} : to_book[u][1].start < to_book[u][1].end
    /\ InitState
    /\ pc = [u \in Users |-> "start"]

\* reservations3 with two adjacent bookings of two users (not vip) and a vip's booking
\* that spans both, on one Room of capacity 1
Init25 ==
    /\ version = 3
    /\ vip = [u \in {1, 2, 3} |-> u = 3]
    /\ capacity = [f \in {"Room"} |-> 1]
    /\ to_book = [u \in {1, 2, 3} |->
                     CASE u = 1 -> <<Skeleton(0, 1, "Room")>>
                       [] u = 2 -> <<Skeleton(1, 2, "Room")>>
                       [] u = 3 -> <<Skeleton(0, 2, "Room")>>]
    /\ InitState
    /\ pc = [u \in Users |-> "start"]

\* ------------------------------------------------------------ specifications
Next1 ==
    \/ \E u \in Users : Book1Lock(u)
    \/ \E u \in Users : Book1Body(u)

Next3 ==
    \/ \E u \in Users : AcquireGate(u)
    \/ \E b \in Ids : LockBooking(b)
    \/ \E b \in Ids : LockFacility(b)
    \/ \E b \in Ids : CheckBody(b)
    \/ \E u \in Users : Join(u)
    \/ \E u \in Users : Confirm(u)
    \/ \E u \in Users : CancelEntry(u)
    \/ \E u \in Users : Cascade(u)
    \/ \E u \in Users : Release(u)

Next2 ==
    \/ \E u \in Users : BookLock(u)
    \/ \E u \in Users : BookTimeCheck(u)
    \/ \E u \in Users : BookCount(u)
    \/ \E u \in Users : BookPreempt(u)
    \/ \E u \in Users : BookDecide(u)
    \/ \E u \in Users : BookConfirm(u)

\* reservations3
Next == Tick \/ Next3 \/ \E u \in Users : Receive(u)

Spec == Init /\ [][Next]_vars

\* reservations2
NextTwo == Tick \/ Next2 \/ \E u \in Users : Receive(u)

Spec2 == Init2 /\ [][NextTwo]_vars

\* either program
NextAny == Tick \/ Next2 \/ Next3 \/ \E u \in Users : Receive(u)

Spec23 == (Init \/ Init2) /\ [][NextAny]_vars

Spec34 == Init34 /\ [][NextAny]_vars

\* reservations1
NextOne == Tick \/ Next1

Spec1 == Init1 /\ [][NextOne]_vars

\* any of the three programs, with one facility
NextAll == Tick \/ Next1 \/ Next2 \/ Next3 \/ \E u \in Users : Receive(u)

InitOneFacility ==
    /\ Init1 \/ Init2 \/ Init
    /\ Facilities = {"Room"}

SpecOneFacility == InitOneFacility /\ [][NextAll]_vars

\* reservations2 in the set-up of test_3users_8bookings_6possible
Spec16 == Init16 /\ [][NextTwo]_vars

\* reservations3 in the set-up of test_3users_8bookings_2compund_1vip_2possible
Spec19 == Init19 /\ [][Next]_vars

\* reservations3 with two victims and two preempting compounds
Spec21 == Init21 /\ [][Next]_vars

Spec32 == Init32 /\ [][Next]_vars

\* reservations3 with two adjacent bookings under a vip's booking
Spec25 == Init25 /\ [][Next]_vars

\* ------------------------------------------------------------ the sequential check
\* run_user's sequential booking check, the variant the source keeps next to the
\* concurrent one: the legs are checked one after another in compound order, each
\* against the lists and statuses the legs before it left. A run is a record
\* [st, bk, possible, cancel_list].

\* a clock value at which the time check of leg b goes the way it went when b was
\* checked
ClockOf(b) == IF result[b].past THEN Bk(b).start + 1 ELSE Bk(b).start

RECURSIVE SeqLegs(_, _, _)
\* the sequential loop from leg i of user u on
SeqLegs(u, i, s) ==
    IF i > N(u) THEN s
    ELSE LET b == <<u, i>>
             f == Bk(b).facility
             r == check_on(s.bk[f], s.st, b, ClockOf(b))
         IN  SeqLegs(u, i + 1,
                 [st |-> s.st,
                  bk |-> IF r.success THEN [s.bk EXCEPT ![f] = Append(@, b)] ELSE s.bk,
                  possible |-> s.possible /\ r.success,
                  cancel_list |-> IF r.to_cancel # None
                                  THEN Append(s.cancel_list, r.to_cancel)
                                  ELSE s.cancel_list])

\* run_user: the loop that confirms the compound of user u, on the statuses st
SeqConfirm(u, st) == [b \in Ids |-> IF Owner(b) = u THEN CONFIRMED ELSE st[b]]

RECURSIVE SeqCascade(_, _, _)
\* run_user: the loop over the compound of the cancelled entry c from member k on;
\* try_write fails on c itself, which the outer round holds
SeqCascade(c, k, st) ==
    IF k > Len(Compound(c)) THEN st
    ELSE LET m == Compound(c)[k]
         IN  SeqCascade(c, k + 1,
                 IF m # c /\ st[m] # CANCELLED THEN [st EXCEPT ![m] = CANCELLED] ELSE st)

RECURSIVE SeqCancel(_, _, _)
\* run_user: the loop over cancel_list cl from entry j on
SeqCancel(cl, j, st) ==
    IF j > Len(cl) THEN st
    ELSE LET c == cl[j]
             st1 == IF st[c] # CANCELLED THEN [st EXCEPT ![c] = CANCELLED] ELSE st
         IN  SeqCancel(cl, j + 1, SeqCascade(c, 1, st1))

\* the whole commit of user u with the sequential check, from the world
\* w = [st, bk, poss]
SeqCommit(u, w) ==
    LET l == SeqLegs(u, 1, [st |-> w.st, bk |-> w.bk, possible |-> TRUE,
                            cancel_list |-> <<>>])
    IN  [st |-> IF l.possible THEN SeqCancel(l.cancel_list, 1, SeqConfirm(u, l.st))
                ELSE l.st,
         bk |-> l.bk,
         poss |-> [w.poss EXCEPT ![u] = l.possible]]

RECURSIVE SeqRun(_)
\* the world after the first k users of the gate order committed with the sequential
\* check
SeqRun(k) ==
    IF k = 0
    THEN [st |-> [b \in Ids |-> UNCONFIRMED], bk |-> [f \in Facilities |-> <<>>],
          poss |-> [u \in Users |-> TRUE]]
    ELSE SeqCommit(order[k], SeqRun(k - 1))

\* ------------------------------------------------------------ start_users
\* the argument lists a caller can hand to start_users: as many ids, flags and lists
\* of skeletons as there are users
Args ==
    UNION {[user_ids : [1..n -> 1..MaxId],
            user_stati : [1..n -> BOOLEAN],
            bookings : [1..n -> {<<>>, <<Skeleton(0, 1, "Room")>>,
                                 <<Skeleton(1, 2, "Room")>>,
                                 <<Skeleton(0, 1, "Room"), Skeleton(1, 2, "Room")>>}]] :
           n \in 1..MaxUsers}

\* reservations3 before start_users is called: the arguments are chosen, no user and
\* no booking exists yet
InitStart ==
    /\ version = 3
    /\ args \in Args
    /\ capacity = [f \in {"Room"} |-> 1]
    /\ vip = <<>>
    /\ to_book = <<>>
    /\ id = <<>>
    /\ InitRun
    /\ pc = <<>>

\* start_users up to the spawn of the threads: the closure runs over
\* (1..=user_ids.len()).enumerate(), so at position i (counted from 1 here) the id is
\* the element of the range, the flag is user_stati's and the bookings are built
\* from the skeletons of bookings at that position, in order, all UNCONFIRMED
StartUsers ==
    /\ version = 3
    /\ id = <<>>
    /\ LET n == Len(args.user_ids)
       IN  /\ id' = [i \in 1..n |-> i]
           /\ vip' = [i \in 1..n |-> args.user_stati[i]]
           /\ to_book' = [i \in 1..n |->
                            [k \in 1..Len(args.bookings[i]) |->
                                Skeleton(args.bookings[i][k].start, args.bookings[i][k].end,
                                         args.bookings[i][k].facility)]]
    /\ status' = [b \in Ids' |-> UNCONFIRMED]
    /\ bkLock' = [b \in Ids' |-> None]
    /\ chk' = [b \in Ids' |-> "none"]
    /\ result' = [b \in Ids' |-> NoResult]
    /\ possible' = [u \in Users' |-> TRUE]
    /\ cancel_list' = [u \in Users' |-> <<>>]
    /\ idx' = [u \in Users' |-> [h |-> 1, i |-> 1, j |-> 1, k |-> 0]]
    /\ cnt' = [u \in Users' |-> [overlaps |-> 0, premium_overlaps |-> 0]]
    /\ inbox' = [u \in Users' |-> <<>>]
    /\ pc' = [u \in Users' |-> "start"]
    /\ UNCHANGED <<args, version, capacity, bookings, tick, facLock, gate, compound_in_process,
                   poisoned, log, order>>

SpecStart == InitStart /\ [][StartUsers]_vars

\* reservations3 with every compound non-empty, every facility of capacity 1 and
\* the last user vip, so that commits with a cancel loop and a cascade occur
InitFair ==
    /\ version = 3
    /\ \E w \in Worlds :
          /\ vip = [u \in w.users |-> u = Cardinality(w.users)]
          /\ capacity = [f \in w.facilities |-> 1]
          /\ to_book \in [w.users -> Compounds(w) \ {<<>>}]
    /\ InitState
    /\ pc = [u \in Users |-> "start"]

\* reservations3 under a scheduler that keeps running some thread that can run
FairSpec == InitFair /\ [][Next]_vars /\ WF_vars(Next3)

\* ------------------------------------------------------------ claims
Instants == {0, 1}
Covers(b, t) == Bk(b).start <= t /\ t < Bk(b).end
ConfirmedAt(f, t) ==
    {i \in 1..Len(bookings[f]) :
        status[bookings[f][i]] = CONFIRMED /\ Covers(bookings[f][i], t)}
Members(u) == {<<u, i>> : i \in 1..N(u)}
InList(b) == \E i \in 1..Len(bookings[Bk(b).facility]) : bookings[Bk(b).facility][i] = b
Final == \A u \in Users : pc[u] = "inbox"

\* C1 (reservations3): in every reachable state, for every facility and every
\* instant, the number of Confirmed bookings in the facility's list whose interval
\* contains the instant is at most the facility's capacity.
C1_CapacityNeverExceeded ==
    \A f \in Facilities, t \in Instants : Cardinality(ConfirmedAt(f, t)) <= capacity[f]

\* C2 (reservations3): in the step that releases the gate at the end of a commit, the
\* compound's bookings are all Confirmed or all Unconfirmed.
C2_AllOrNothingAtRelease ==
    [][\A u \in Users :
          (gate = u /\ gate' = 0 /\ pc'[u] = "inbox")
          => \/ \A b \in Members(u) : status'[b] = CONFIRMED
             \/ \A b \in Members(u) : status'[b] = UNCONFIRMED]_vars

\* a two-leg compound was given up with one of its legs admitted
C2_Witness ==
    \E u \in Users :
        /\ pc[u] = "inbox" /\ N(u) = 2 /\ ~possible[u]
        /\ \E b \in Members(u) : result[b].success
        /\ \A b \in Members(u) : status[b] = UNCONFIRMED

\* C3 (reservations2 and 3): no booking of a vip user is ever cancelled by the thread
\* of another vip user; and a vip booking that counted at least capacity confirmed
\* vip overlaps was declined, was not pushed, chose no booking to cancel and had
\* nothing cancelled for it.
C3_VipNeverPreemptsVip ==
    /\ \A i \in 1..Len(log) :
          ~(vip[Owner(log[i].booking)] /\ vip[log[i].by] /\ log[i].by # Owner(log[i].booking))
    /\ \A b \in Ids :
          (/\ result[b].done /\ ~result[b].past /\ vip[Owner(b)]
           /\ result[b].premium_overlaps >= capacity[Bk(b).facility])
          => /\ ~result[b].success
             /\ result[b].to_cancel = None
             /\ ~InList(b)
             /\ \A i \in 1..Len(log) : log[i].for \notin {b, Self(Owner(b))}

\* a vip booking was declined against the confirmed booking of another vip user
C3_Witness ==
    \E b \in Ids :
        /\ result[b].done /\ vip[Owner(b)] /\ result[b].premium_overlaps >= 1
        /\ ~result[b].success
        /\ \E e \in Ids :
              /\ InList(e) /\ Bk(e).facility = Bk(b).facility /\ Owner(e) # Owner(b)
              /\ vip[Owner(e)] /\ status[e] = CONFIRMED /\ overlap(Bk(e), Bk(b))

\* C4 (reservations2 and 3): a booking's status changes only Unconfirmed->Confirmed,
\* Unconfirmed->Cancelled or Confirmed->Cancelled.
C4_StatusMonotone ==
    [][\A b \in Ids :
          status'[b] # status[b]
          => <<status[b], status'[b]>> \in {<<UNCONFIRMED, CONFIRMED>>,
                                            <<UNCONFIRMED, CANCELLED>>,
                                            <<CONFIRMED, CANCELLED>>}]_vars

\* a booking was confirmed and then cancelled, and another one has been confirmed
C4_Witness ==
    \E b, c \in Ids : status[b] = CANCELLED /\ status[c] = CONFIRMED /\ InList(b)

\* C5 (reservations3): whoever is between taking and releasing the gate holds it, so
\* at most one user is; every check thread that runs belongs to the holder, and every
\* push to a facility, status write and message is made by the holder.
InFlight(u) == pc[u] \in {"join", "confirm", "cancel", "abort"}
Running(b) == chk[b] \in {"spawned", "lockedBooking", "lockedFacility"}
C5_OneCompoundInFlight ==
    /\ [](\A u \in Users : InFlight(u) => gate = u)
    /\ [](\A b \in Ids : Running(b) => gate = Owner(b))
    /\ [][/\ \A b \in Ids : (chk'[b] # chk[b] /\ chk[b] # "none") => gate = Owner(b)
          /\ \A b \in Ids : (status'[b] = CONFIRMED /\ status[b] # CONFIRMED) => gate = Owner(b)
          /\ log' # log => (gate # 0 /\ log'[Len(log')].by = gate)
          /\ \A f \in Facilities :
                bookings'[f] # bookings[f] => Owner(bookings'[f][Len(bookings'[f])]) = gate
         ]_vars

\* one user is in the middle of a cascade while another still waits for the gate
C5_Witness ==
    \E u, v \in Users :
        /\ u # v /\ gate = u /\ pc[u] = "cancel" /\ idx[u].k > 0
        /\ pc[v] = "start" /\ N(v) > 0

\* C6 (reservations3): once a compound was found not possible, all its bookings are
\* Unconfirmed, those that were admitted are in their facility's list, and its user's
\* thread has cancelled nothing and sent nothing, in every later state.
C6_FailedCommitChangesNothing ==
    \A u \in Users :
        (pc[u] \in {"abort", "inbox"} /\ ~possible[u])
        => /\ \A b \in Members(u) : status[b] = UNCONFIRMED /\ (result[b].success => InList(b))
           /\ \A i \in 1..Len(log) : log[i].by # u

\* a compound was given up that had an admitted leg and a booking to cancel, which
\* is still confirmed
C6_Witness ==
    \E u \in Users :
        /\ pc[u] = "inbox" /\ ~possible[u] /\ cancel_list[u] # <<>>
        /\ \E b \in Members(u) : result[b].success
        /\ status[cancel_list[u][1]] = CONFIRMED

\* C7 (reservations3): whenever the gate is free, a compound with a Cancelled booking
\* has all its bookings Cancelled, all by the same user's commit.
C7_CascadeCancelsWholeCompound ==
    gate = 0 =>
        /\ \A b \in Ids : status[b] = CANCELLED
              => \A s \in Members(Owner(b)) : status[s] = CANCELLED
        /\ \A i, j \in 1..Len(log) :
              Owner(log[i].booking) = Owner(log[j].booking) => log[i].by = log[j].by

\* a compound with legs on two facilities was cancelled
C7_Witness ==
    /\ gate = 0
    /\ \E b \in Ids :
          /\ status[b] = CANCELLED /\ N(Owner(b)) = 2
          /\ Bk(<<Owner(b), 1>>).facility # Bk(<<Owner(b), 2>>).facility

\* the scenario of C8 and C9: user 1 (not vip) and user 2 (vip) each submit one
\* booking, same interval, same facility of capacity 1, and the clock stays at or
\* before the start
TwoUsersOneVip ==
    /\ Users = {1, 2} /\ ~vip[1] /\ vip[2]
    /\ N(1) = 1 /\ N(2) = 1 /\ Bk(<<1, 1>>) = Bk(<<2, 1>>)
    /\ capacity[Bk(<<1, 1>>).facility] = 1
    /\ tick <= Bk(<<1, 1>>).start

\* C8 as claimed (reservations3): in the final state exactly one of the two bookings
\* is Confirmed, and if it is the vip's, the other one is Cancelled.
C8_OtherIsCancelled ==
    (TwoUsersOneVip /\ Final)
    => /\ Cardinality({b \in Ids : status[b] = CONFIRMED}) = 1
       /\ status[<<2, 1>>] = CONFIRMED => status[<<1, 1>>] = CANCELLED

\* C8 as amended (reservations3): in the final state exactly one of the two bookings
\* is Confirmed, the vip's; the other one is Cancelled if it had been admitted, and
\* Unconfirmed and in no list if it was declined.
C8_OtherIsCancelledOrDeclined ==
    (TwoUsersOneVip /\ Final)
    => /\ Cardinality({b \in Ids : status[b] = CONFIRMED}) = 1
       /\ status[<<2, 1>>] = CONFIRMED
       /\ result[<<1, 1>>].success => status[<<1, 1>>] = CANCELLED
       /\ ~result[<<1, 1>>].success => (status[<<1, 1>>] = UNCONFIRMED /\ ~InList(<<1, 1>>))

\* the vip took the gate first and the other booking was declined
C8_Witness ==
    TwoUsersOneVip /\ Final /\ status[<<2, 1>>] = CONFIRMED /\ status[<<1, 1>>] = UNCONFIRMED

\* C9 (reservations3): in that scenario the final list of the facility is either the
\* vip's booking alone, Confirmed, or the other booking, Cancelled, followed by the
\* vip's.
C9_FinalList ==
    (TwoUsersOneVip /\ Final)
    => LET l == bookings[Bk(<<1, 1>>).facility]
       IN  \/ l = <<(<<2, 1>>)>> /\ status[<<2, 1>>] = CONFIRMED
           \/ Len(l) = 2 /\ l[1] = <<1, 1>> /\ status[<<1, 1>>] = CANCELLED /\ l[2] = <<2, 1>>

\* the list ends with two entries
C9_Witness ==
    TwoUsersOneVip /\ Final /\ Len(bookings[Bk(<<1, 1>>).facility]) = 2

\* C10 (reservations3): a check against a facility of capacity 0 never succeeds, vip
\* or not, and no booking of a compound with such a leg is ever Confirmed.
C10_ZeroCapacityLeg ==
    \A b \in Ids :
        capacity[Bk(b).facility] = 0
        => /\ result[b].done => ~result[b].success
           /\ \A s \in Members(Owner(b)) : status[s] # CONFIRMED

\* a vip's compound had a leg checked in time against a facility of capacity 0 and
\* another leg admitted, and is over
C10_Witness ==
    \E b \in Ids :
        /\ capacity[Bk(b).facility] = 0 /\ vip[Owner(b)]
        /\ result[b].done /\ ~result[b].past
        /\ pc[Owner(b)] = "inbox"
        /\ \E s \in Members(Owner(b)) : result[s].success

\* C11 (reservations3): a compound's bookings are set to Confirmed exactly when every
\* leg was admitted: a booking becomes Confirmed only in a commit whose legs all
\* succeeded; when the gate is released after a commit, possible is the AND of the
\* legs' results and the bookings are all Confirmed if it is true; and a lone compound
\* with one leg on each of two facilities of capacity >= 1, checked in time, ends with
\* both legs Confirmed.
AllAdmitted(u) == \A b \in Members(u) : result[b].done /\ result[b].success
LoneTwoFacilityCompound(u) ==
    /\ N(u) = 2 /\ \A v \in Users \ {u} : N(v) = 0
    /\ Bk(<<u, 1>>).facility # Bk(<<u, 2>>).facility
    /\ \A b \in Members(u) : capacity[Bk(b).facility] >= 1
C11_ConfirmedIffAllAdmitted ==
    /\ [][\A b \in Ids :
             (status'[b] = CONFIRMED /\ status[b] # CONFIRMED)
             => (possible[Owner(b)] /\ AllAdmitted(Owner(b)))]_vars
    /\ [][\A u \in Users :
             (gate = u /\ gate' = 0 /\ pc'[u] = "inbox")
             => /\ possible[u] <=> AllAdmitted(u)
                /\ AllAdmitted(u) <=> \A b \in Members(u) : status'[b] = CONFIRMED]_vars
    /\ [](\A u \in Users :
             (/\ LoneTwoFacilityCompound(u) /\ pc[u] = "inbox"
              /\ \A b \in Members(u) : ~result[b].past)
             => \A b \in Members(u) : status[b] = CONFIRMED)

\* a lone compound with a leg on each of two facilities is over, both legs Confirmed
C11_Witness ==
    \E u \in Users :
        /\ LoneTwoFacilityCompound(u) /\ pc[u] = "inbox"
        /\ \A b \in Members(u) : status[b] = CONFIRMED /\ InList(b)

\* C12 as claimed (reservations3): when a user's compound has two legs with the same
\* interval on the same facility of capacity 1, the two legs are never both Confirmed.
C12_TwinLegsNeverBothConfirmed ==
    \A u \in Users :
        (N(u) = 2 /\ Bk(<<u, 1>>) = Bk(<<u, 2>>) /\ capacity[Bk(<<u, 1>>).facility] = 1)
        => ~(status[<<u, 1>>] = CONFIRMED /\ status[<<u, 2>>] = CONFIRMED)

\* every run_user thread is through with its bookings (reservations1: ended,
\* reservations2 and 3: waiting on its inbox)
Over == \A u \in Users : pc[u] \in {"done", "inbox"}

\* C13 (reservations1 and 2): when a single user submits two bookings with the same
\* interval on the same facility of capacity 1, both checked in time, exactly one of
\* them is appended, the other is rejected, and the final list has length 1.
TwinBookings(u) ==
    /\ N(u) = 2 /\ \A v \in Users \ {u} : N(v) = 0
    /\ Bk(<<u, 1>>) = Bk(<<u, 2>>)
    /\ capacity[Bk(<<u, 1>>).facility] = 1
C13_OneOfTwinBookings ==
    \A u \in Users :
        (/\ version \in {1, 2} /\ TwinBookings(u) /\ Over
         /\ \A b \in Members(u) : ~result[b].past)
        => /\ Cardinality({b \in Members(u) : result[b].success}) = 1
           /\ Cardinality({b \in Members(u) : InList(b)}) = 1
           /\ Len(bookings[Bk(<<u, 1>>).facility]) = 1

\* reservations2: a vip user's twin bookings are over, the first one Confirmed and the
\* second one declined
C13_Witness ==
    \E u \in Users :
        /\ version = 2 /\ TwinBookings(u) /\ Over /\ vip[u]
        /\ status[<<u, 1>>] = CONFIRMED /\ InList(<<u, 1>>)
        /\ result[<<u, 2>>].done /\ ~result[<<u, 2>>].past /\ ~result[<<u, 2>>].success

\* C14 (every version, reservations3 with compounds of one leg): when the bookings
\* submitted for a facility of capacity >= 1 are pairwise disjoint as half-open
\* intervals, adjacent ones included, every one of them that is checked in time is
\* admitted and is in the facility's list, whoever submits it and however the
\* threads interleave.
Disjoint(b1, b2) == Bk(b1).end <= Bk(b2).start \/ Bk(b2).end <= Bk(b1).start
PairwiseDisjoint(f) ==
    \A b1, b2 \in Ids :
        (b1 # b2 /\ Bk(b1).facility = f /\ Bk(b2).facility = f) => Disjoint(b1, b2)
C14_DisjointAllAdmitted ==
    \A f \in Facilities :
        (/\ capacity[f] >= 1 /\ PairwiseDisjoint(f)
         /\ version = 3 => \A u \in Users : N(u) <= 1)
        => \A b \in Ids :
              (Bk(b).facility = f /\ result[b].done /\ ~result[b].past)
              => (result[b].success /\ InList(b))

\* two users had one booking each, adjacent intervals, and both are in the list
C14_Witness ==
    /\ Over
    /\ \E b1, b2 \in Ids :
          /\ Owner(b1) # Owner(b2) /\ N(Owner(b1)) = 1 /\ N(Owner(b2)) = 1
          /\ Bk(b1).end = Bk(b2).start
          /\ capacity[Bk(b1).facility] = 1
          /\ bookings[Bk(b1).facility] = <<b2, b1>>

\* C15 as claimed (reservations2): in every reachable state, for every facility and
\* every instant, at most capacity Confirmed bookings of the facility's list contain
\* the instant.
C15_CapacityNeverExceeded2 ==
    version = 2 =>
        \A f \in Facilities, t \in Instants : Cardinality(ConfirmedAt(f, t)) <= capacity[f]

ConfirmedIn(f) == {i \in 1..Len(bookings[f]) : status[bookings[f][i]] = CONFIRMED}
CancelledIn(f) == {i \in 1..Len(bookings[f]) : status[bookings[f][i]] = CANCELLED}

\* C16 as claimed (reservations2, the set-up of test_3users_8bookings_6possible): when
\* the three threads are through, each facility has exactly 3 Confirmed bookings.
C16_ThreeConfirmedEach ==
    (version = 2 /\ Final) => \A f \in Facilities : Cardinality(ConfirmedIn(f)) = 3

\* C17 as claimed (reservations2): user 1 (not vip) and user 2 (vip) each book the
\* same interval on the same facility of capacity 1, in time. The final list is
\* either one entry owned by the vip, or two entries, the second owned by the vip and
\* the first Cancelled.
C17_FinalList2 ==
    (version = 2 /\ TwoUsersOneVip /\ Final)
    => LET l == bookings[Bk(<<1, 1>>).facility]
       IN  \/ Len(l) = 1 /\ Owner(l[1]) = 2
           \/ Len(l) = 2 /\ Owner(l[2]) = 2 /\ status[l[1]] = CANCELLED

\* C18 (reservations1): in every reachable state, for every facility and every
\* instant, at most capacity bookings of the facility's list contain the instant; and
\* when two users each request the same interval on a facility of capacity 1, both
\* in time, exactly one of the two is admitted.
BookedAt(f, t) == {i \in 1..Len(bookings[f]) : Covers(bookings[f][i], t)}
C19_TwoConfirmedEach ==
    (version = 3 /\ Users = {1, 2, 3} /\ Final)
    => /\ \A f \in Facilities : Cardinality(ConfirmedIn(f)) = 2
       /\ \A f, g \in Facilities : Cardinality(CancelledIn(f)) = Cardinality(CancelledIn(g))
       /\ \A f \in Facilities : Cardinality(CancelledIn(f)) <= 1

\* the vip came last: one compound was cancelled on both facilities
C19_Witness ==
    /\ version = 3 /\ Users = {1, 2, 3} /\ Final
    /\ \A f \in Facilities : capacity[f] = 2 /\ Cardinality(CancelledIn(f)) = 1

\* C20 (reservations2 and 3): a step that turns a booking Cancelled appends exactly
\* that booking to its owner's inbox and touches no other inbox; an inbox grows in
\* no other step; no booking is cancelled and notified twice, also when it was
\* collected by two legs or is both a candidate and the sibling of one; so the
\* notices ever sent to a user are as many as the user's Cancelled bookings.
NoticesTo(u) == {i \in 1..Len(log) : Owner(log[i].booking) = u}
C20_OneNoticePerCancellation ==
    /\ [][\A b \in Ids :
             (status'[b] = CANCELLED /\ status[b] # CANCELLED)
             => /\ inbox'[Owner(b)] = Append(inbox[Owner(b)], b)
                /\ \A u \in Users \ {Owner(b)} : inbox'[u] = inbox[u]]_vars
    /\ [][\A u \in Users :
             Len(inbox'[u]) > Len(inbox[u])
             => \E b \in Members(u) :
                   /\ status'[b] = CANCELLED /\ status[b] # CANCELLED
                   /\ inbox'[u] = Append(inbox[u], b)]_vars
    /\ [](\A u \in Users :
             Cardinality(NoticesTo(u))
                 = Cardinality({b \in Members(u) : status[b] = CANCELLED}))
    /\ [](\A i, j \in 1..Len(log) : log[i].booking = log[j].booking => i = j)

\* reservations3: both legs of a compound were collected as candidates by the two
\* legs of a vip's compound, each being the other's sibling, and the commit is over
C20_Witness ==
    \E u \in Users :
        /\ version = 3 /\ pc[u] = "inbox" /\ possible[u] /\ Len(cancel_list[u]) = 2
        /\ cancel_list[u][1] # cancel_list[u][2]
        /\ Owner(cancel_list[u][1]) = Owner(cancel_list[u][2])
        /\ Cardinality(NoticesTo(Owner(cancel_list[u][1]))) = 2

\* C21 (reservations3): notices are sent in the order in which the compounds took the
\* gate: a notice sent by a compound that held the gate earlier precedes every notice
\* sent by a compound that held it later, and each inbox holds, in the order of
\* sending, the notices sent to its user that were not received yet.
Pos(u) == CHOOSE i \in 1..Len(order) : order[i] = u
IsNoticeTo(u, e) == Owner(e.booking) = u
NoticesOf(u) == SelectSeq(log, LAMBDA e : IsNoticeTo(u, e))
C21_NoticesInCommitOrder ==
    /\ \A i \in 1..Len(log) : \E k \in 1..Len(order) : order[k] = log[i].by
    /\ \A i, j \in 1..Len(log) :
          (i < j /\ log[i].by # log[j].by) => Pos(log[i].by) < Pos(log[j].by)
    /\ \A u \in Users :
          /\ Len(inbox[u]) <= Len(NoticesOf(u))
          /\ \A k \in 1..Len(inbox[u]) :
                inbox[u][k] = NoticesOf(u)[Len(NoticesOf(u)) - Len(inbox[u]) + k].booking

\* two compounds each sent a notice, and the later one's notice is still in its inbox
C21_Witness ==
    /\ Len(log) = 2 /\ log[1].by # log[2].by
    /\ inbox[Owner(log[2].booking)] = <<log[2].booking>>
    /\ Final

\* the step in which the call of check_facility for b runs its body and returns
Checked(b) == chk[b] = "lockedFacility" /\ chk'[b] = "finished"
\* two bookings share an instant, as half-open intervals
Intersects(b1, b2) == Bk(b1).start < Bk(b2).end /\ Bk(b2).start < Bk(b1).end
ListOf(b) == bookings[Bk(b).facility]
ConfirmedOverlaps(b) ==
    {i \in 1..Len(ListOf(b)) :
        status[ListOf(b)[i]] = CONFIRMED /\ Intersects(ListOf(b)[i], b)}
VipConfirmedOverlaps(b) == {i \in ConfirmedOverlaps(b) : vip[Owner(ListOf(b)[i])]}
NonVipConfirmedOverlaps(b) == {i \in ConfirmedOverlaps(b) : ~vip[Owner(ListOf(b)[i])]}

\* C22 (reservations3, check_facility): the call admits the booking exactly when its
\* start is not before the tick and either the requester is not vip and fewer than
\* capacity Confirmed entries overlap it, or the requester is vip and fewer than
\* capacity Confirmed entries of vip users overlap it; a booking that starts before
\* the tick is rejected with no candidate.
C22_AdmittedExactlyWhen ==
    [][\A b \in Ids :
          Checked(b)
          => /\ result'[b].success
                  = (/\ Bk(b).start >= tick
                     /\ \/ ~vip[Owner(b)]
                              /\ Cardinality(ConfirmedOverlaps(b)) < capacity[Bk(b).facility]
                        \/ vip[Owner(b)]
                              /\ Cardinality(VipConfirmedOverlaps(b)) < capacity[Bk(b).facility])
             /\ Bk(b).start < tick
                  => (~result'[b].success /\ result'[b].to_cancel = None)]_vars

\* a vip's booking was rejected as past, with no candidate, although a Confirmed
\* booking of a non-vip user that overlaps it fills the facility
C22_Witness ==
    \E b \in Ids :
        /\ vip[Owner(b)] /\ result[b].done /\ result[b].past
        /\ ~result[b].success /\ result[b].to_cancel = None
        /\ Cardinality(NonVipConfirmedOverlaps(b)) >= capacity[Bk(b).facility]
        /\ capacity[Bk(b).facility] >= 1

\* C23 (reservations3, check_facility): a candidate is returned exactly when the start
\* is not before the tick, the requester is vip, at least capacity Confirmed entries
\* overlap and fewer than capacity of them belong to vip users; then an eligible
\* entry exists and the call admits. No call returns a candidate without admitting,
\* and a requester that is not vip gets no candidate.
C23_CandidateExactlyWhen ==
    [][\A b \in Ids :
          Checked(b)
          => /\ (result'[b].to_cancel # None)
                  = (/\ Bk(b).start >= tick
                     /\ vip[Owner(b)]
                     /\ Cardinality(ConfirmedOverlaps(b)) >= capacity[Bk(b).facility]
                     /\ Cardinality(VipConfirmedOverlaps(b)) < capacity[Bk(b).facility])
             /\ result'[b].to_cancel # None
                  => (result'[b].success /\ NonVipConfirmedOverlaps(b) # {})
             /\ ~vip[Owner(b)] => result'[b].to_cancel = None]_vars

\* a vip's check returned a candidate and admitted the booking, which is in the list
C23_Witness ==
    \E b \in Ids :
        /\ result[b].done /\ result[b].success /\ result[b].to_cancel # None
        /\ vip[Owner(b)] /\ InList(b)

\* C24 (reservations3, check_facility): the candidate returned is the entry of lowest
\* index in the facility's list that is Confirmed, owned by a non-vip user and
\* overlaps the checked booking, whatever the entries' start times.
C24_CandidateIsFirstInList ==
    [][\A b \in Ids :
          (Checked(b) /\ result'[b].to_cancel # None)
          => \E i \in NonVipConfirmedOverlaps(b) :
                /\ result'[b].to_cancel = ListOf(b)[i]
                /\ \A j \in NonVipConfirmedOverlaps(b) : i <= j]_vars

\* the candidate was the first entry of the list, and the second entry was eligible
\* too and starts earlier
C24_Witness ==
    \E b \in Ids :
        /\ result[b].done /\ result[b].to_cancel # None
        /\ Len(ListOf(b)) >= 2
        /\ result[b].to_cancel = ListOf(b)[1]
        /\ ~vip[Owner(ListOf(b)[2])] /\ Intersects(ListOf(b)[2], b)
        /\ Owner(ListOf(b)[2]) # Owner(b)
        /\ Bk(ListOf(b)[2]).start < Bk(ListOf(b)[1]).start

\* the commit of user u is complete: every entry of its cancel list was handled
CommitDone(u) == gate = u /\ pc[u] = "cancel" /\ idx[u].j > Len(cancel_list[u])
\* the entries of f that were Confirmed and contained t before u took the gate:
\* those of other users that are Confirmed now or were cancelled by u
ConfirmedBefore(u, f, t) ==
    {i \in 1..Len(bookings[f]) :
        /\ Covers(bookings[f][i], t)
        /\ Owner(bookings[f][i]) # u
        /\ \/ status[bookings[f][i]] = CONFIRMED
           \/ \E k \in 1..Len(log) : log[k].booking = bookings[f][i] /\ log[k].by = u}

\* C25 as claimed (reservations3): when a vip's compound of one leg is committed with
\* a preemption candidate on a facility where at most capacity Confirmed bookings
\* contained any instant before, at most capacity Confirmed bookings contain any
\* instant when the commit is complete.
C25_PreemptionKeepsCapacity ==
    \A u \in Users :
        (/\ CommitDone(u) /\ vip[u] /\ N(u) = 1 /\ possible[u] /\ cancel_list[u] # <<>>
         /\ \A t \in Instants :
               Cardinality(ConfirmedBefore(u, Bk(<<u, 1>>).facility, t))
                   <= capacity[Bk(<<u, 1>>).facility])
        => \A t \in Instants :
              Cardinality(ConfirmedAt(Bk(<<u, 1>>).facility, t))
                  <= capacity[Bk(<<u, 1>>).facility]

\* C26 (reservations3): entries that are Unconfirmed or Cancelled never influence a
\* check: whenever check_facility returns, its admitted result and its candidate are
\* those it would return on every variant of the facility's list from which any of
\* the entries that are not Confirmed are removed and in which any of the remaining
\* ones have their status switched between Unconfirmed and Cancelled.
NotConfirmedIn(l) == {i \in 1..Len(l) : status[l[i]] # CONFIRMED}
RECURSIVE Without(_, _)
Without(l, D) ==
    IF l = <<>> THEN <<>>
    ELSE IF Len(l) \in D THEN Without(SubSeq(l, 1, Len(l) - 1), D)
         ELSE Append(Without(SubSeq(l, 1, Len(l) - 1), D), l[Len(l)])
Switched(l, F) ==
    [e \in DOMAIN status |->
        IF \E i \in F : l[i] = e
        THEN (IF status[e] = UNCONFIRMED THEN CANCELLED ELSE UNCONFIRMED)
        ELSE status[e]]
C26_ResidueNeverCounts ==
    [][\A b \in Ids :
          Checked(b)
          => \A D \in SUBSET NotConfirmedIn(ListOf(b)) :
                \A F \in SUBSET (NotConfirmedIn(ListOf(b)) \ D) :
                    /\ check_on(Without(ListOf(b), D), Switched(ListOf(b), F), b, tick).success
                           = result'[b].success
                    /\ check_on(Without(ListOf(b), D), Switched(ListOf(b), F), b, tick).to_cancel
                           = result'[b].to_cancel]_vars

\* a booking was admitted to a facility of capacity 1 whose list holds, before it, the
\* overlapping Unconfirmed entry of another user's aborted compound
C26_Witness ==
    \E b \in Ids :
        /\ result[b].done /\ result[b].success /\ capacity[Bk(b).facility] = 1
        /\ Len(ListOf(b)) = 2 /\ ListOf(b)[2] = b
        /\ Owner(ListOf(b)[1]) # Owner(b)
        /\ status[ListOf(b)[1]] = UNCONFIRMED /\ ~possible[Owner(ListOf(b)[1])]
        /\ Intersects(ListOf(b)[1], b)

\* C27 (reservations3): a call of check_facility changes no status; when it rejects
\* it leaves every list as it is; when it admits it changes only the list of the
\* checked booking's facility, by appending the booking, which is Unconfirmed. In
\* every step every facility's old list is a prefix of its new list.
C27_CheckOnlyAppends ==
    [][/\ \A b \in Ids :
             Checked(b)
             => /\ status' = status
                /\ IF result'[b].success
                   THEN /\ bookings' = [bookings EXCEPT ![Bk(b).facility] = Append(@, b)]
                        /\ status[b] = UNCONFIRMED
                   ELSE bookings' = bookings
       /\ \A f \in Facilities :
             /\ Len(bookings'[f]) >= Len(bookings[f])
             /\ SubSeq(bookings'[f], 1, Len(bookings[f])) = bookings[f]]_vars

\* a list holds two entries and a third check on it was rejected for capacity
C27_Witness ==
    \E b \in Ids :
        /\ version = 3 /\ result[b].done /\ ~result[b].past /\ ~result[b].success
        /\ Len(ListOf(b)) = 2 /\ ~InList(b)

\* C28 (reservations3): two calls of check_facility on the same facility never run
\* their bodies at the same time: a call in its body holds the facility's lock, a
\* list changes only by the append of the call that holds its lock, and the list of a
\* call that stays in its body does not change; calls on different facilities
\* interleave.
InBody(b) == chk[b] = "lockedFacility"
C28_ChecksOnAFacilityExclude ==
    /\ [](\A b \in Ids : InBody(b) => facLock[Bk(b).facility] = b)
    /\ [](\A b1, b2 \in Ids :
             (b1 # b2 /\ Bk(b1).facility = Bk(b2).facility) => ~(InBody(b1) /\ InBody(b2)))
    /\ [][/\ \A f \in Facilities :
                bookings'[f] # bookings[f]
                => (facLock[f] # None /\ bookings'[f] = Append(bookings[f], facLock[f]))
          /\ \A b \in Ids :
                (InBody(b) /\ chk'[b] = chk[b]) => bookings'[Bk(b).facility] = ListOf(b)
         ]_vars

\* two legs of one compound on the same facility: the second is in its body, the
\* first holds its booking's lock and waits for the facility
C28_Witness ==
    \E u \in Users :
        /\ version = 3 /\ N(u) = 2 /\ Bk(<<u, 1>>).facility = Bk(<<u, 2>>).facility
        /\ chk[<<u, 2>>] = "lockedFacility" /\ chk[<<u, 1>>] = "lockedBooking"

\* C29 (reservations3): when every user has a non-empty compound, under fair
\* scheduling the program gets, from wherever it is, to the state in which every user
\* has taken the gate and is through its commit, every check has returned and the
\* gate is free; and the gate is released only by a holder whose checks have all been
\* joined. So no deadlock among the gate, the facilities' locks and the bookings'
\* locks is reachable.
AllNonEmpty == \A u \in Users : N(u) > 0
Settled ==
    /\ Final /\ gate = 0
    /\ \A u \in Users : \E k \in 1..Len(order) : order[k] = u
    /\ \A b \in Ids : chk[b] = "finished"
C29_NoDeadlock ==
    /\ AllNonEmpty ~> Settled
    /\ [][\A u \in Users :
             (gate = u /\ gate' = 0)
             => /\ pc[u] \in {"cancel", "abort"}
                /\ \A b \in Members(u) : chk[b] = "finished"]_vars

\* a commit with two legs on one facility is in its cascade over a compound with two
\* legs on that facility, the commit of that compound's user being over
C29_Witness ==
    \E u, v \in Users :
        /\ AllNonEmpty /\ u # v /\ gate = u /\ pc[u] = "cancel" /\ idx[u].k > 0
        /\ N(u) = 2 /\ Bk(<<u, 1>>).facility = Bk(<<u, 2>>).facility
        /\ pc[v] = "inbox"

\* C30 (reservations3): whenever no commit is under way, the status of every booking
\* and the possible flag of every user are those the sequential check produces for
\* the same gate order and the same outcomes of the legs' time checks: how the
\* concurrent checks of a compound interleave does not show in the outcome.
C30_SameAsSequential ==
    gate = 0 =>
        LET w == SeqRun(Len(order))
        IN  /\ status = w.st
            /\ possible = w.poss

\* all commits are over, a list is not in the order the sequential check leaves (two
\* legs on one facility were pushed in reverse), and a later commit preempted
C30_Witness ==
    /\ Final /\ gate = 0 /\ Len(order) = Cardinality(Users)
    /\ bookings # SeqRun(Len(order)).bk
    /\ \E b \in Ids : status[b] = CANCELLED /\ Owner(b) = order[1]

\* C31 (reservations3): the commit is total: for every compound, the one with no
\* legs included, run_user ends its commit without a panic and leaves the gate
\* usable, so no thread ever panics and the gate's lock is never poisoned.
C31_CommitIsTotal ==
    /\ ~poisoned
    /\ \A u \in Users : pc[u] # "panicked"

\* C32: on bookings with start < end, overlap is the half-open test
\* b1.start < b2.end /\ b2.start < b1.end, it is symmetric, and an interval that
\* ends where the other starts does not overlap it.
HalfOpen(b1, b2) == b1.start < b2.end /\ b2.start < b1.end
C32_OverlapIsHalfOpen ==
    \A a, b \in Ids :
        /\ overlap(Bk(a), Bk(b)) = HalfOpen(Bk(a), Bk(b))
        /\ overlap(Bk(a), Bk(b)) = overlap(Bk(b), Bk(a))
        /\ Bk(a).end = Bk(b).start => ~overlap(Bk(a), Bk(b))

\* overlap has decided a check: on a capacity-1 Room a booking of a user who is not
\* vip was admitted, with no overlap counted, after the Confirmed booking that ends
\* where it starts
C32_Witness ==
    /\ capacity["Room"] = 1 /\ ~vip[2] /\ Final
    /\ \E a, b \in Ids :
        /\ Owner(a) # Owner(b) /\ Owner(a) = order[1]
        /\ Bk(a).end = Bk(b).start
        /\ status[a] = CONFIRMED /\ status[b] = CONFIRMED
        /\ result[b].overlaps = 0

\* C33 (reservations3): at every position, the user that start_users creates has the
\* id the caller supplied at that position in user_ids, the flag supplied at that
\* position, and as bookings the skeletons supplied at that position, in order.
C33_UsersAsSupplied ==
    id # <<>> =>
        \A i \in 1..Len(args.user_ids) :
            /\ id[i] = args.user_ids[i]
            /\ vip[i] = args.user_stati[i]
            /\ to_book[i] = args.bookings[i]

\* C34 (reservations2 and 3): in every reachable state no booking of a vip user is
\* Cancelled: neither the preemption loop nor the cascade over a preempted booking's
\* compound reaches one.
C34_VipNeverCancelled ==
    \A b \in Ids : vip[Owner(b)] => status[b] # CANCELLED

\* reservations3: a vip's booking stands first in the Room's list, before the booking
\* of user 1; the second vip's check passed over it and chose user 1's booking, whose
\* compound was cancelled as a whole, and both vip bookings are Confirmed
C34_Witness ==
    /\ version = 3 /\ Final
    /\ Len(bookings["Room"]) = 3 /\ vip[Owner(bookings["Room"][1])]
    /\ Owner(bookings["Room"][2]) = 1
    /\ result[bookings["Room"][3]].to_cancel = <<1, 1>>
    /\ status[<<1, 1>>] = CANCELLED /\ status[<<1, 2>>] = CANCELLED
    /\ status[<<2, 1>>] = CONFIRMED /\ status[<<3, 1>>] = CONFIRMED

\* C35 (reservations2 and 3): a booking becomes Cancelled only from Confirmed: no step
\* takes a booking from Unconfirmed to Cancelled.
C35_CancelledOnlyFromConfirmed ==
    [][\A b \in Ids :
          (status'[b] = CANCELLED /\ status[b] # CANCELLED) => status[b] = CONFIRMED]_vars

\* a preemption cancelled a Confirmed booking that stands in the list behind an
\* overlapping booking of a user who is not vip that is still Unconfirmed
C35_Witness ==
    \E f \in Facilities : \E i, j \in 1..Len(bookings[f]) : \E c \in Ids :
        /\ i < j
        /\ status[bookings[f][i]] = UNCONFIRMED /\ ~vip[Owner(bookings[f][i])]
        /\ overlap(Bk(bookings[f][i]), Bk(c))
        /\ status[bookings[f][j]] = CANCELLED
        /\ result[c].to_cancel = bookings[f][j]

\* C36 (reservations3): in every reachable state a booking that is Confirmed or
\* Cancelled stands exactly once in the list of its own facility and in no other
\* list; a booking that its check rejected is in no list and is Unconfirmed.
Places(b, f) == {i \in 1..Len(bookings[f]) : bookings[f][i] = b}
C36_SettledBookingsAreListedOnce ==
    \A b \in Ids :
        /\ status[b] \in {CONFIRMED, CANCELLED}
           => \A f \in Facilities :
                 Cardinality(Places(b, f)) = IF f = Bk(b).facility THEN 1 ELSE 0
        /\ (result[b].done /\ ~result[b].success)
           => /\ \A f \in Facilities : Places(b, f) = {}
              /\ status[b] = UNCONFIRMED

\* all commits are over: one booking is Confirmed, one was Cancelled, and one was
\* rejected by its check
C36_Witness ==
    /\ Final
    /\ \E b, c, d \in Ids :
          /\ status[b] = CONFIRMED
          /\ status[c] = CANCELLED
          /\ result[d].done /\ ~result[d].success

\* C37 (reservations3): whenever a check returns a candidate, the candidate's end is
\* later than the tick the check read: a booking that had ended by then is never
\* chosen for preemption.
C37_CandidateHasNotEnded ==
    [][\A b \in Ids :
          (Checked(b) /\ result'[b].to_cancel # None)
          => Bk(result'[b].to_cancel).end > tick]_vars

\* the last user's only check ran at tick MaxTick > 0 and chose a candidate, while a
\* booking of a user who is not vip that had ended by then stood Confirmed in the
\* same list
C37_Witness ==
    \E b, e \in Ids :
        /\ tick = MaxTick /\ tick > 0
        /\ Len(order) = Cardinality(Users) /\ order[Len(order)] = Owner(b) /\ N(Owner(b)) = 1
        /\ chk[b] = "finished" /\ result[b].to_cancel # None
        /\ Bk(b).start = tick
        /\ InList(e) /\ Bk(e).facility = Bk(b).facility /\ ~vip[Owner(e)]
        /\ Bk(e).end <= tick /\ status[e] # UNCONFIRMED

\* C38 (reservations3): a notice is put into a user's inbox only after that user's
\* own commit is over and the gate released (the user is in its inbox loop, and the
\* gate is held by a user who took it later), and the notice is about a booking of
\* that user that its commit had Confirmed.
Sent(u) == Len(inbox'[u]) > Len(inbox[u])
C38_NoticesOnlyAfterOwnCommit ==
    [][\A u \in Users :
          Sent(u)
          => /\ pc[u] = "inbox"
             /\ gate \in Users /\ gate # u
             /\ \E k \in 1..Len(order) : order[k] = u /\ order[Len(order)] = gate /\ k < Len(order)
             /\ possible[u]
             /\ LET b == inbox'[u][Len(inbox'[u])]
                IN  Owner(b) = u /\ status[b] = CONFIRMED /\ status'[b] = CANCELLED]_vars

\* the user who took the gate first has a notice waiting while the user who sent it
\* still holds the gate
C38_Witness ==
    \E u \in Users :
        /\ inbox[u] # <<>>
        /\ Len(order) >= 2 /\ order[1] = u
        /\ gate = order[Len(order)] /\ gate # u

====
